---- MODULE Spec2Model ----
(***************************************************************************)
(* A model of the MineClicker game engine (src/src/mineclicker/lib.py).    *)
(* The board is the numpy triple grid / swept / flagged; a method call of  *)
(* the class is one action.  numpy indexing is modelled as numpy does it:  *)
(* an index i of an axis of length n addresses element i for 0 <= i < n,   *)
(* element i + n for -n <= i < 0, and raises IndexError otherwise.         *)
(***************************************************************************)
EXTENDS Integers, Sequences, FiniteSets, TLC

\* ------------------------------------------------------------------------
\* Bounds of the model (the source plays on an 8 by 8 board)
\* ------------------------------------------------------------------------
rows == 2
cols == 3
MaxLocations == 2
\* the mines the constructor samples (10 on the board of the source)
RandomMines == 2

\* ------------------------------------------------------------------------
\* Program constants (MineClicker.__init__)
\* ------------------------------------------------------------------------
max_number_of_adj_mines == 8
unexplored == 9
mine == 10
exploded == 11
flag == 12

VARIABLES
  locations,        \* the argument of the constructor call not yet made
  constructed,      \* TRUE iff the constructor has returned an object
  grid,             \* self.grid    : cell -> 0..11
  swept,            \* self.swept   : cell -> 0..1
  flagged,          \* self.flagged : cell -> 0..1
  won, lost, quit,  \* self.won, self.lost, self.quit
  number_of_mines,  \* self.number_of_mines
  raised,           \* the exception the last call ended with, or "none"
  returned,         \* the view the last call returned, NoView if it returned none
  mines_laid,       \* history: the cells the constructor set to mine
  mine_locations_flat,  \* the sample rand.sample hands the constructor
  pc                \* the position of run_cli_game, "none" when it does not run

vars == <<locations, constructed, grid, swept, flagged, won, lost, quit,
          number_of_mines, raised, returned, mines_laid, mine_locations_flat,
          pc>>

\* what a call that returns no view leaves in returned
NoView == << >>

Cells == (0 .. rows - 1) \X (0 .. cols - 1)

\* ------------------------------------------------------------------------
\* Python values that reach valid_location: a value is iterable or not, and
\* an iterable has items that are integers or not (characters of a string).
\* ------------------------------------------------------------------------
PyInt(n) == [isint |-> TRUE, v |-> n]
PyChar == [isint |-> FALSE, v |-> 0]
PyTuple(r, c) == [iterable |-> TRUE, items |-> <<PyInt(r), PyInt(c)>>]
PyStr(n) == [iterable |-> TRUE, items |-> [i \in 1 .. n |-> PyChar]]
PyNumber(n) == [iterable |-> FALSE, items |-> <<PyInt(n)>>]

\* numpy: does index i address an element of an axis of length n
InAxis(i, n) == -n <= i /\ i < n
\* numpy: the element that index i addresses
AxisIndex(i, n) == IF i < 0 THEN i + n ELSE i
\* numpy: array[(row, col)] raises IndexError
IndexError(row, col) == ~(InAxis(row, rows) /\ InAxis(col, cols))
\* numpy: the cell that array[(row, col)] addresses
Cell(row, col) == <<AxisIndex(row, rows), AxisIndex(col, cols)>>

\* valid_location: "True", "False", or "TypeError" when the comparison of a
\* non-integer item with an integer raises outside the try block
valid_location(location) ==
  IF ~location.iterable \/ Len(location.items) # 2 THEN "False"
  ELSE LET row == location.items[1]
           col == location.items[2]
       IN IF ~row.isint THEN "TypeError"
          ELSE IF row.v >= rows \/ row.v < 0 THEN "False"
          ELSE IF ~col.isint THEN "TypeError"
          ELSE IF col.v >= cols \/ col.v < 0 THEN "False"
          ELSE "True"

\* sum_adjacent_mines: the eight neighbours in the order of the source
adjacent_locations(row, col) ==
  << <<row + 1, col>>, <<row - 1, col>>, <<row, col + 1>>, <<row, col - 1>>,
     <<row + 1, col + 1>>, <<row + 1, col - 1>>,
     <<row - 1, col + 1>>, <<row - 1, col - 1>> >>

\* mutant: the neighbour is indexed without valid_location, as numpy indexes
adjacent_mine_unchecked(g, location) ==
  IF IndexError(location[1], location[2]) THEN 0
  ELSE IF g[Cell(location[1], location[2])] = mine THEN 1 ELSE 0

\* the body of the loop of sum_adjacent_mines: what one neighbour adds
adjacent_mine(g, location) ==
  IF valid_location(PyTuple(location[1], location[2])) = "True"
  THEN IF g[Cell(location[1], location[2])] = mine THEN 1 ELSE 0
  ELSE 0

RECURSIVE count_mines(_, _, _)
count_mines(g, adj, i) ==
  IF i > Len(adj) THEN 0
  ELSE adjacent_mine(g, adj[i]) + count_mines(g, adj, i + 1)

sum_adjacent_mines(g, row, col) ==
  count_mines(g, adjacent_locations(row, col), 1)

\* mutant: the unexplored test comes before the exploded test
check_game_state_won_first(g, w, l) ==
  IF ~(\E c \in Cells : g[c] = unexplored) THEN [won |-> TRUE, lost |-> l]
  ELSE IF \E c \in Cells : g[c] = exploded THEN [won |-> w, lost |-> TRUE]
  ELSE [won |-> w, lost |-> l]

\* mutant: the unexplored test has lost its "not"
check_game_state_any_unexplored(g, w, l) ==
  IF \E c \in Cells : g[c] = exploded THEN [won |-> w, lost |-> TRUE]
  ELSE IF \E c \in Cells : g[c] = unexplored THEN [won |-> TRUE, lost |-> l]
  ELSE [won |-> w, lost |-> l]

\* mutant: an exploded mine takes the win back
check_game_state_loss_clears_win(g, w, l) ==
  IF \E c \in Cells : g[c] = exploded THEN [won |-> FALSE, lost |-> TRUE]
  ELSE IF ~(\E c \in Cells : g[c] = unexplored) THEN [won |-> TRUE, lost |-> l]
  ELSE [won |-> w, lost |-> l]

\* check_game_state: the new won and lost for grid g
check_game_state(g, w, l) ==
  IF \E c \in Cells : g[c] = exploded THEN [won |-> w, lost |-> TRUE]
  ELSE IF ~(\E c \in Cells : g[c] = unexplored) THEN [won |-> TRUE, lost |-> l]
  ELSE [won |-> w, lost |-> l]

\* ------------------------------------------------------------------------
\* The constructor, MineClicker(locations), with an explicit list
\* ------------------------------------------------------------------------
\* the loop over locations: the grid and the count it leaves, and the
\* exception that ended it
RECURSIVE lay_mines(_, _, _, _)
lay_mines(locs, i, g, n) ==
  IF i > Len(locs) THEN [grid |-> g, number_of_mines |-> n, raised |-> "none"]
  ELSE LET location == locs[i]
           valid == valid_location(location)
       IN IF valid = "TypeError"
          THEN [grid |-> g, number_of_mines |-> n, raised |-> "TypeError"]
          ELSE IF valid = "True"
          THEN lay_mines(locs, i + 1,
                         [g EXCEPT ![<<location.items[1].v, location.items[2].v>>] = mine],
                         n + 1)
          ELSE lay_mines(locs, i + 1, g, n)

\* the entries a list of locations is drawn from: cells, locations off the
\* board, the strings "waffles" and "ab", the number 90
LocationEntries ==
  { PyTuple(0, 0), PyTuple(1, 1), PyTuple(-1, -1), PyTuple(0, cols),
    PyStr(7), PyStr(2), PyNumber(90) }

LocationLists ==
  UNION { [1 .. n -> LocationEntries] : n \in 0 .. MaxLocations }

\* The fields as lines 89-112 of the constructor set them, before the mines
\* are laid.
Init ==
  /\ locations \in LocationLists
  /\ mine_locations_flat = << >>
  /\ pc = "none"
  /\ constructed = FALSE
  /\ raised = "none"
  /\ returned = NoView
  /\ grid = [c \in Cells |-> unexplored]
  /\ number_of_mines = 0
  /\ mines_laid = {}
  /\ swept = [c \in Cells |-> 0]
  /\ flagged = [c \in Cells |-> 0]
  /\ won = FALSE
  /\ lost = FALSE
  /\ quit = FALSE

MineClicker ==
  /\ ~constructed
  /\ raised = "none"
  /\ LET built == lay_mines(locations, 1, grid, 0)
     IN /\ constructed' = (built.raised = "none")
        /\ raised' = built.raised
        /\ grid' = built.grid
        /\ number_of_mines' = built.number_of_mines
        /\ mines_laid' = {c \in Cells : built.grid[c] = mine}
  /\ locations' = << >>
  /\ returned' = NoView
  /\ UNCHANGED <<pc, mine_locations_flat, swept, flagged, won, lost, quit>>

\* ------------------------------------------------------------------------
\* The constructor, MineClicker(), with no list: the mines are sampled.  The
\* sample is the value of mine_locations_flat, which is not empty in this
\* branch only.
\* ------------------------------------------------------------------------
\* rand.sample(range(rows * cols), number_of_mines): distinct flat indices
Samples ==
  { s \in [1 .. RandomMines -> 0 .. rows * cols - 1] :
      \A i, j \in 1 .. RandomMines : i # j => s[i] # s[j] }

\* mutant: the flat index is divided by the number of rows
divmod_by_rows(location, n) == <<location \div rows, location % rows>>

\* divmod(location, self.cols)
divmod(location, n) == <<location \div n, location % n>>

\* the loop over mine_locations_flat: the grid it leaves, and the exception
\* that ended it
RECURSIVE lay_sample(_, _, _)
lay_sample(flat, i, g) ==
  IF i > Len(flat) THEN [grid |-> g, raised |-> "none"]
  ELSE LET location == divmod(flat[i], cols)
       IN IF IndexError(location[1], location[2])
          THEN [grid |-> g, raised |-> "IndexError"]
          ELSE lay_sample(flat, i + 1,
                          [g EXCEPT ![Cell(location[1], location[2])] = mine])

\* The fields as lines 89-112 of the constructor set them, and the sample
\* that line 120 will draw.
InitRandom ==
  /\ locations = << >>
  /\ mine_locations_flat \in Samples
  /\ pc = "none"
  /\ constructed = FALSE
  /\ raised = "none"
  /\ returned = NoView
  /\ grid = [c \in Cells |-> unexplored]
  /\ number_of_mines = 0
  /\ mines_laid = {}
  /\ swept = [c \in Cells |-> 0]
  /\ flagged = [c \in Cells |-> 0]
  /\ won = FALSE
  /\ lost = FALSE
  /\ quit = FALSE

MineClickerRandom ==
  /\ ~constructed
  /\ raised = "none"
  /\ mine_locations_flat # << >>
  /\ LET built == lay_sample(mine_locations_flat, 1, grid)
     IN /\ constructed' = (built.raised = "none")
        /\ raised' = built.raised
        /\ grid' = built.grid
        /\ mines_laid' = {c \in Cells : built.grid[c] = mine}
  /\ number_of_mines' = RandomMines
  /\ returned' = NoView
  /\ UNCHANGED <<pc, mine_locations_flat, locations, swept, flagged, won, lost, quit>>

\* ------------------------------------------------------------------------
\* The methods of the class
\* ------------------------------------------------------------------------
\* the locations a caller passes to sweep_tile: every cell of the board, and
\* locations that are not valid (negative, or beyond the last row or column)
SweepLocations ==
  Cells \cup { <<-1, -1>>, <<-1, 0>>, <<rows, 0>> }

\* the locations a caller passes to flag_tile: a cell of the board, and
\* locations that are not valid (negative, or beyond the last row and column)
FlagLocations ==
  { <<0, 0>>, <<-rows, -cols>>, <<rows, cols>> }

\* mutant: the flag is set, never cleared
toggled_set(fl, row, col) ==
  [fl EXCEPT ![Cell(row, col)] = 1]

\* self.flagged[location] = not self.flagged[location]
toggled(fl, row, col) ==
  [fl EXCEPT ![Cell(row, col)] = IF fl[Cell(row, col)] = 0 THEN 1 ELSE 0]

flag_tile(row, col) ==
  /\ constructed
  /\ returned' = NoView
  /\ IF IndexError(row, col)
     THEN /\ raised' = "IndexError"
          /\ UNCHANGED flagged
     ELSE /\ raised' = "none"
          /\ flagged' = toggled(flagged, row, col)
  /\ UNCHANGED <<pc, mine_locations_flat, locations, constructed, grid, swept, won, lost, quit,
                 number_of_mines, mines_laid>>

\* mutant: the mask is inverted, flags go where swept is 0
cleared_unswept(fl, sw) == [c \in Cells |-> IF sw[c] = 0 THEN 0 ELSE fl[c]]

\* mutant: every flag is cleared, swept or not
cleared_all(fl, sw) == [c \in Cells |-> 0]

\* self.flagged[np.where(self.swept)] = 0
cleared(fl, sw) == [c \in Cells |-> IF sw[c] # 0 THEN 0 ELSE fl[c]]

clear_swept_flags ==
  /\ constructed
  /\ returned' = NoView
  /\ flagged' = cleared(flagged, swept)
  /\ raised' = "none"
  /\ UNCHANGED <<pc, mine_locations_flat, locations, constructed, grid, swept, won, lost, quit,
                 number_of_mines, mines_laid>>

\* mutant: a swept mine is left as a mine
swept_grid_keeps_mine(g, row, col) ==
  [g EXCEPT ![Cell(row, col)] =
     IF g[Cell(row, col)] = mine THEN mine
     ELSE sum_adjacent_mines(g, row, col)]

\* the grid that sweep_tile((row, col)) leaves
swept_grid(g, row, col) ==
  [g EXCEPT ![Cell(row, col)] =
     IF g[Cell(row, col)] = mine THEN exploded
     ELSE sum_adjacent_mines(g, row, col)]

sweep_tile(row, col) ==
  /\ constructed
  /\ returned' = NoView
  /\ IF IndexError(row, col)
     THEN /\ raised' = "IndexError"
          /\ UNCHANGED <<grid, swept, won, lost>>
     ELSE LET g == swept_grid(grid, row, col)
              state == check_game_state(g, won, lost)
          IN /\ raised' = "none"
             /\ swept' = [swept EXCEPT ![Cell(row, col)] = 1]
             /\ grid' = g
             /\ won' = state.won
             /\ lost' = state.lost
  /\ UNCHANGED <<pc, mine_locations_flat, locations, constructed, flagged, quit, number_of_mines,
                 mines_laid>>

\* mutant: quit is flipped, not set
exit_game_flips_quit ==
  /\ constructed
  /\ returned' = NoView
  /\ quit' = ~quit
  /\ raised' = "none"
  /\ UNCHANGED <<pc, mine_locations_flat, locations, constructed, grid, swept, flagged, won, lost,
                 number_of_mines, mines_laid>>

exit_game ==
  /\ constructed
  /\ returned' = NoView
  /\ quit' = TRUE
  /\ raised' = "none"
  /\ UNCHANGED <<pc, mine_locations_flat, locations, constructed, grid, swept, flagged, won, lost,
                 number_of_mines, mines_laid>>

\* ------------------------------------------------------------------------
\* player_view.  An element of the float array is a number or nan.
\* ------------------------------------------------------------------------
Float(n) == [nan |-> FALSE, v |-> n]
NaN == [nan |-> TRUE, v |-> 0]

\* view[np.where(mask)] = value
masked(view, mask, value) ==
  [c \in Cells |-> IF c \in mask THEN value ELSE view[c]]

\* mutant: the flags are written before the masks of nan
view_of_flags_first(g, fl) ==
  LET copy == [c \in Cells |-> Float(g[c])]
      flags == masked(copy, {c \in Cells : fl[c] = 1}, Float(flag))
      mines == masked(flags, {c \in Cells : g[c] = mine}, NaN)
  IN masked(mines, {c \in Cells : g[c] = unexplored}, NaN)

\* mutant: the mines are not masked
view_of_mines_shown(g, fl) ==
  LET copy == [c \in Cells |-> Float(g[c])]
      unknown == masked(copy, {c \in Cells : g[c] = unexplored}, NaN)
  IN masked(unknown, {c \in Cells : fl[c] = 1}, Float(flag))

\* the array player_view returns for grid g and flags fl
view_of(g, fl) ==
  LET copy == [c \in Cells |-> Float(g[c])]
      mines == masked(copy, {c \in Cells : g[c] = mine}, NaN)
      unknown == masked(mines, {c \in Cells : g[c] = unexplored}, NaN)
  IN masked(unknown, {c \in Cells : fl[c] = 1}, Float(flag))

player_view ==
  /\ constructed
  /\ returned' = view_of(grid, flagged)
  /\ raised' = "none"
  /\ UNCHANGED <<pc, mine_locations_flat, locations, constructed, grid, swept,
                 flagged, won, lost, quit, number_of_mines, mines_laid>>

\* ------------------------------------------------------------------------
\* The command line turn.  A string is a sequence of one-character strings.
\* ------------------------------------------------------------------------
Digits == <<"0", "1", "2", "3", "4", "5", "6", "7", "8", "9">>
IsDigit(ch) == \E i \in 1 .. Len(Digits) : Digits[i] = ch
DigitValue(ch) == (CHOOSE i \in 1 .. Len(Digits) : Digits[i] = ch) - 1

\* str.strip("f"): drop every leading and every trailing "f"
RECURSIVE lstrip_f(_)
lstrip_f(str) ==
  IF str # << >> /\ Head(str) = "f" THEN lstrip_f(Tail(str)) ELSE str

RECURSIVE rstrip_f(_)
rstrip_f(str) ==
  IF str # << >> /\ str[Len(str)] = "f"
  THEN rstrip_f(SubSeq(str, 1, Len(str) - 1)) ELSE str

strip_f(str) == rstrip_f(lstrip_f(str))

\* str.split(' '): cut at every single space, empty pieces kept
RECURSIVE split(_)
split(str) ==
  IF \E i \in 1 .. Len(str) : str[i] = " "
  THEN LET i == CHOOSE j \in 1 .. Len(str) :
                  str[j] = " " /\ \A k \in 1 .. j - 1 : str[k] # " "
       IN <<SubSeq(str, 1, i - 1)>> \o split(SubSeq(str, i + 1, Len(str)))
  ELSE <<str>>

\* the value of a run of decimal digits
RECURSIVE digits_value(_)
digits_value(str) ==
  IF str = << >> THEN 0
  ELSE 10 * digits_value(SubSeq(str, 1, Len(str) - 1)) + DigitValue(str[Len(str)])

\* int(token) over the characters of UserStrings: an optional sign and at
\* least one digit, ValueError otherwise
int(token) ==
  LET signed == token # << >> /\ Head(token) \in {"-", "+"}
      body == IF signed THEN Tail(token) ELSE token
  IN IF body # << >> /\ \A i \in 1 .. Len(body) : IsDigit(body[i])
     THEN [ok |-> TRUE,
           v |-> IF signed /\ Head(token) = "-" THEN -digits_value(body)
                 ELSE digits_value(body)]
     ELSE [ok |-> FALSE, v |-> 0]

None == [ok |-> FALSE, row |-> 0, col |-> 0]

\* parse_coords: the location, or None
parse_coords(user_string) ==
  LET parsing == split(user_string)
  IN IF Len(parsing) # 2 THEN None
     ELSE LET row == int(parsing[1])
              col == int(parsing[2])
          IN IF ~row.ok \/ ~col.ok THEN None
             ELSE IF valid_location(PyTuple(row.v, col.v)) = "True"
             THEN [ok |-> TRUE, row |-> row.v, col |-> col.v]
             ELSE None

\* "f" in user_string
has_f(user_string) == \E i \in 1 .. Len(user_string) : user_string[i] = "f"

\* the line that names location (row, col) of the board
Coords(row, col) == <<Digits[row + 1], " ", Digits[col + 1]>>

\* the lines a player types: a sweep of every cell, flags, quit, and lines
\* that are off the board or malformed
UserStrings ==
  { Coords(c[1], c[2]) : c \in Cells }
  \cup { <<"f">> \o Coords(0, 0), <<"f">> \o Coords(rows - 1, cols - 1),
         Coords(0, 0) \o <<"f">>, <<"f", "f">> \o Coords(0, 0) }
  \cup { <<"q">>, << >>, <<"-", "1", " ", "0">>, Coords(0, cols), Coords(rows, 0),
         <<"9", "0">>, <<"f", "s", "d", "a", "f">>, <<"1", " ", "2", " ", "3">>,
         <<"0", " ", " ", "0">>, <<"f", "-", "1", " ", "-", "1">> }

\* the turn, as it acts on the engine
cli_action(user_string) ==
  /\ constructed
  /\ returned' = NoView
  /\ raised' = "none"
  /\ IF user_string = <<"q">>
     THEN /\ quit' = TRUE
          /\ UNCHANGED <<grid, swept, flagged, won, lost>>
     ELSE LET location == parse_coords(strip_f(user_string))
          IN IF location = None
             THEN UNCHANGED <<grid, swept, flagged, won, lost, quit>>
             ELSE IF has_f(user_string)
             THEN /\ flagged' = cleared(toggled(flagged, location.row, location.col),
                                        swept)
                  /\ UNCHANGED <<grid, swept, won, lost, quit>>
             ELSE LET g == swept_grid(grid, location.row, location.col)
                      state == check_game_state(g, won, lost)
                      sw == [swept EXCEPT ![Cell(location.row, location.col)] = 1]
                  IN /\ swept' = sw
                     /\ grid' = g
                     /\ won' = state.won
                     /\ lost' = state.lost
                     /\ flagged' = cleared(flagged, sw)
                     /\ UNCHANGED quit
  /\ UNCHANGED <<mine_locations_flat, locations, constructed, number_of_mines, mines_laid>>

cli_take_action(user_string) ==
  /\ cli_action(user_string)
  /\ UNCHANGED pc

\* ------------------------------------------------------------------------
\* The session loop, run_cli_game (src/src/mineclicker/__main__.py).  pc is
\* "start" before a game is constructed, "turn" before a cli_take_action,
\* "prompt" before the answer to the question that ends a round is read,
\* "reprompt" before the answer to "Your answer was not clear" is read,
\* "raised" after an exception and "exited" after the break.
\* ------------------------------------------------------------------------
\* mutant: an answer that is not in the dictionary counts as a no
check_yes_unclear_is_no(user_string) ==
  IF user_string \in {"Yes", "yes", "Y", "y"} THEN "True" ELSE "False"

\* check_yes: "True", "False" or "None"
check_yes(user_string) ==
  IF user_string \in {"Yes", "yes", "Y", "y"} THEN "True"
  ELSE IF user_string \in {"No", "no", "N", "n"} THEN "False"
  ELSE "None"

\* the answers a player types to the question
Answers == {"Yes", "yes", "Y", "y", "No", "no", "N", "n", "", "YES", "maybe"}

\* the lists of locations the command line hands run_cli_game: pairs of
\* integers, on the board or not
ShellLocationLists ==
  UNION { [1 .. n -> {PyTuple(0, 0), PyTuple(1, 1), PyTuple(0, cols)}] :
            n \in 0 .. MaxLocations }

InitShell ==
  /\ locations \in ShellLocationLists
  /\ mine_locations_flat = << >>
  /\ pc = "start"
  /\ constructed = FALSE
  /\ raised = "none"
  /\ returned = NoView
  /\ grid = [c \in Cells |-> unexplored]
  /\ number_of_mines = 0
  /\ mines_laid = {}
  /\ swept = [c \in Cells |-> 0]
  /\ flagged = [c \in Cells |-> 0]
  /\ won = FALSE
  /\ lost = FALSE
  /\ quit = FALSE

\* lines 43-46: game = MineClicker(locations), a new object
run_cli_game_start ==
  /\ pc = "start"
  /\ LET built == lay_mines(locations, 1, [c \in Cells |-> unexplored], 0)
     IN /\ constructed' = (built.raised = "none")
        /\ raised' = built.raised
        /\ grid' = built.grid
        /\ number_of_mines' = built.number_of_mines
        /\ mines_laid' = {c \in Cells : built.grid[c] = mine}
        /\ pc' = IF built.raised = "none" THEN "turn" ELSE "raised"
  /\ swept' = [c \in Cells |-> 0]
  /\ flagged' = [c \in Cells |-> 0]
  /\ won' = FALSE
  /\ lost' = FALSE
  /\ quit' = FALSE
  /\ returned' = NoView
  /\ UNCHANGED <<locations, mine_locations_flat>>

\* mutant: a lost game does not end the round
run_cli_game_turn_plays_on(user_string) ==
  /\ pc = "turn"
  /\ cli_action(user_string)
  /\ pc' = IF won' \/ quit' THEN "prompt" ELSE "turn"

\* lines 48-50: one turn, and the test that ends the round
run_cli_game_turn(user_string) ==
  /\ pc = "turn"
  /\ cli_action(user_string)
  /\ pc' = IF lost' \/ won' \/ quit' THEN "prompt" ELSE "turn"

\* lines 63 and 72-76: where an answer leads
answered(continue_string) ==
  IF check_yes(continue_string) = "None" THEN "reprompt"
  ELSE IF check_yes(continue_string) = "True" THEN "start"
  ELSE "exited"

\* lines 51-63: the question that ends the round, and its answer
run_cli_game_prompt(continue_string) ==
  /\ pc = "prompt"
  /\ pc' = answered(continue_string)
  /\ UNCHANGED <<locations, constructed, grid, swept, flagged, won, lost, quit,
                 number_of_mines, raised, returned, mines_laid,
                 mine_locations_flat>>

\* lines 65-71: the question asked again, and its answer
run_cli_game_reprompt(continue_string) ==
  /\ pc = "reprompt"
  /\ pc' = answered(continue_string)
  /\ UNCHANGED <<locations, constructed, grid, swept, flagged, won, lost, quit,
                 number_of_mines, raised, returned, mines_laid,
                 mine_locations_flat>>

\* The engine driven through its methods, with any location a caller passes.
Next ==
  \/ MineClicker
  \/ \E location \in SweepLocations : sweep_tile(location[1], location[2])
  \/ \E location \in FlagLocations : flag_tile(location[1], location[2])
  \/ clear_swept_flags
  \/ exit_game

Spec == Init /\ [][Next]_vars

\* the cells a caller flags in SpecBoard
FlagCells == { <<0, 0>>, <<rows - 1, cols - 1>> }

\* The engine driven through its methods with locations of the board, and
\* viewed by the player.
NextBoard ==
  \/ MineClicker
  \/ \E location \in Cells : sweep_tile(location[1], location[2])
  \/ \E location \in FlagCells : flag_tile(location[1], location[2])
  \/ clear_swept_flags
  \/ exit_game
  \/ player_view

SpecBoard == Init /\ [][NextBoard]_vars

\* The reference flow: the engine is driven by command line turns only.
NextCli ==
  \/ MineClicker
  \/ \E user_string \in UserStrings : cli_take_action(user_string)

SpecCli == Init /\ [][NextCli]_vars

\* the lines a player types in a session
ShellStrings ==
  { Coords(c[1], c[2]) : c \in Cells }
  \cup { <<"f">> \o Coords(0, 0), <<"q">>, << >>, Coords(rows, 0) }

\* The session of run_cli_game.
NextShell ==
  \/ run_cli_game_start
  \/ \E user_string \in ShellStrings : run_cli_game_turn(user_string)
  \/ \E continue_string \in Answers : run_cli_game_prompt(continue_string)
  \/ \E continue_string \in Answers : run_cli_game_reprompt(continue_string)

SpecShell == InitShell /\ [][NextShell]_vars

\* A game on a board with sampled mines.
NextRandom ==
  \/ MineClickerRandom
  \/ \E location \in Cells : sweep_tile(location[1], location[2])
  \/ exit_game

SpecRandom == InitRandom /\ [][NextRandom]_vars

\* ------------------------------------------------------------------------
\* Properties
\* ------------------------------------------------------------------------
Unexplored == {c \in Cells : grid[c] = unexplored}
MineCells == {c \in Cells : grid[c] \in {mine, exploded}}
MinesIntact == \A c \in mines_laid : grid[c] = mine
Neighbours(c) ==
  {n \in Cells : /\ n # c
                 /\ n[1] - c[1] \in -1 .. 1
                 /\ n[2] - c[2] \in -1 .. 1}
\* is (row, col) a location of the board
OnBoard(row, col) == valid_location(PyTuple(row, col)) = "True"

\* C1: won and lost are never both true, whatever methods are called.
C1_WonLostExclusive == ~(won /\ lost)

\* C2: the cells holding Mine or Exploded are as many as number_of_mines and
\* are exactly the cells the constructor mined.
C2_MinesNeverChange ==
  constructed => /\ Cardinality(MineCells) = number_of_mines
                 /\ MineCells = mines_laid

\* C3: a sweep of a cell holding Mine leaves the cell Exploded and lost true,
\* and leaves won as it was, also when no Unexplored cell remains.
C3_MineSweepLoses ==
  [][\A location \in SweepLocations :
       (/\ ~IndexError(location[1], location[2])
        /\ grid[Cell(location[1], location[2])] = mine
        /\ sweep_tile(location[1], location[2]))
       => /\ grid'[Cell(location[1], location[2])] = exploded
          /\ lost'
          /\ won' = won]_vars

C3_Witness ==
  /\ lost /\ ~won
  /\ Unexplored = {}
  /\ Cardinality({c \in Cells : grid[c] = exploded}) = 2

\* C4: while no mine has been swept, lost is false, won is false as long as
\* a cell is Unexplored, and won is true once a sweep has left none.
C4_WinBySweepingAll ==
  (constructed /\ MinesIntact)
  => /\ ~lost
     /\ Unexplored # {} => ~won
     /\ (Unexplored = {} /\ \E c \in Cells : swept[c] = 1) => won

C4_Witness ==
  /\ won /\ ~lost
  /\ mines_laid # {} /\ MinesIntact
  /\ \E c \in Cells : flagged[c] = 1

\* C5: when a sweep sets won, every cell without a mine is swept and every
\* mined cell still holds Mine and is not swept.
C5_WonMeansMinesUntouched ==
  [][(~won /\ won')
     => /\ \A c \in Cells \ mines_laid : swept'[c] = 1
        /\ \A c \in mines_laid : grid'[c] = mine /\ swept'[c] = 0]_vars

\* C6: the constructor returns for every list, number_of_mines is the number
\* of distinct valid locations of the list and the number of cells holding
\* Mine, and every other cell is Unexplored.
C6_ExplicitMinesCounted ==
  [][~constructed
     => /\ constructed'
        /\ number_of_mines' =
             Cardinality({locations[i] : i \in
                            {j \in 1 .. Len(locations) :
                               valid_location(locations[j]) = "True"}})
        /\ number_of_mines' = Cardinality({c \in Cells : grid'[c] = mine})
        /\ \A c \in Cells : grid'[c] \in {mine, unexplored}]_vars

\* C7: flag_tile with a location off the board raises and changes nothing.
C7_FlagOffBoardRaises ==
  [][\A location \in FlagLocations :
       (/\ ~OnBoard(location[1], location[2])
        /\ flag_tile(location[1], location[2]))
       => /\ raised' # "none"
          /\ UNCHANGED <<grid, swept, flagged, won, lost, quit>>]_vars

\* C8: a sweep of a location off the board, asked of sweep_tile or typed as
\* a line, changes nothing and raises nothing.
C8_SweepOffBoardIsNoOp ==
  [][/\ \A location \in SweepLocations :
          (/\ ~OnBoard(location[1], location[2])
           /\ sweep_tile(location[1], location[2]))
          => /\ raised' = "none"
             /\ UNCHANGED <<grid, swept, flagged, won, lost>>
     /\ \A user_string \in UserStrings :
          (/\ user_string # <<"q">>
           /\ ~has_f(user_string)
           /\ parse_coords(user_string) = None
           /\ cli_take_action(user_string))
          => /\ raised' = "none"
             /\ UNCHANGED <<grid, swept, flagged, won, lost>>]_vars

\* C9: in the reference flow no cell is both swept and flagged after a turn,
\* and the flag of an unswept cell goes only by a turn that toggles it.
C9_NoSweptCellFlagged ==
  [][/\ \A c \in Cells : ~(swept'[c] = 1 /\ flagged'[c] = 1)
     /\ \A c \in Cells :
          (flagged[c] = 1 /\ swept'[c] = 0 /\ flagged'[c] = 0)
          => \E user_string \in UserStrings :
               /\ cli_take_action(user_string)
               /\ has_f(user_string)
               /\ parse_coords(strip_f(user_string))
                    = [ok |-> TRUE, row |-> c[1], col |-> c[2]]]_vars

C9_Witness ==
  /\ swept[<<0, 0>>] = 1 /\ flagged[<<0, 0>>] = 0
  /\ swept[<<rows - 1, cols - 1>>] = 0 /\ flagged[<<rows - 1, cols - 1>>] = 1

\* C10: a sweep of a cell of the board that does not hold Mine marks it swept
\* and stores the number of its neighbours on the board that hold Mine, a
\* number in 0..8; Exploded neighbours do not count.
C10_SweepStoresAdjacentMines ==
  [][\A c \in Cells :
       (grid[c] # mine /\ sweep_tile(c[1], c[2]))
       => /\ swept'[c] = 1
          /\ grid'[c] = Cardinality({n \in Neighbours(c) : grid[n] = mine})
          /\ grid'[c] \in 0 .. max_number_of_adj_mines]_vars

C10_Witness ==
  \E c \in Cells :
    /\ swept[c] = 1 /\ grid[c] = 1
    /\ \E n \in Neighbours(c) : grid[n] = exploded
    /\ \E n \in Neighbours(c) : grid[n] = mine

\* C11: player_view returns, cell by cell, the flag marker where the cell is
\* flagged, else nan where the cell holds Mine or Unexplored, else the value
\* of the grid; and it changes nothing of the engine.
C11_PlayerViewMasks ==
  [][player_view
     => /\ returned' =
             [c \in Cells |->
                IF flagged[c] = 1 THEN Float(flag)
                ELSE IF grid[c] \in {mine, unexplored} THEN NaN
                ELSE Float(grid[c])]
        /\ UNCHANGED <<grid, swept, flagged, won, lost, quit,
                       number_of_mines>>]_vars

C11_Witness ==
  /\ returned # NoView
  /\ \E c \in Cells : grid[c] = mine /\ returned[c] = NaN
  /\ \E c \in Cells : grid[c] = unexplored /\ returned[c] = NaN
  /\ \E c \in Cells : grid[c] = exploded /\ returned[c] = Float(exploded)
  /\ \E c \in Cells : grid[c] \in 0 .. 8 /\ returned[c] = Float(grid[c])
  /\ \E c \in Cells : swept[c] = 1 /\ returned[c] = Float(flag)

\* the location is two integers that lie on the board
TwoIntsOnBoard(location) ==
  /\ location.iterable
  /\ Len(location.items) = 2
  /\ \A i \in 1 .. 2 : location.items[i].isint
  /\ location.items[1].v \in 0 .. rows - 1
  /\ location.items[2].v \in 0 .. cols - 1

\* C12: valid_location answers True for two integers on the board and False
\* for every other value, and never raises; stated of the entries the
\* constructor hands it.
C12_ValidLocationTotal ==
  [][~constructed
     => \A i \in 1 .. Len(locations) :
          valid_location(locations[i]) =
            IF TwoIntsOnBoard(locations[i]) THEN "True" ELSE "False"]_vars

\* the engine fields a command line turn leaves as they were
CliUnchanged == UNCHANGED <<grid, swept, flagged, won, lost, quit>>

\* what a turn does that sweeps location loc and then clears the swept flags
CliSweeps(loc) ==
  LET g == swept_grid(grid, loc.row, loc.col)
      state == check_game_state(g, won, lost)
  IN /\ grid' = g
     /\ swept' = [swept EXCEPT ![Cell(loc.row, loc.col)] = 1]
     /\ won' = state.won
     /\ lost' = state.lost
     /\ flagged' = cleared(flagged, swept')
     /\ UNCHANGED quit

\* what a turn does that toggles the flag of loc and then clears the swept flags
CliFlags(loc) ==
  /\ flagged' = cleared(toggled(flagged, loc.row, loc.col), swept)
  /\ UNCHANGED <<grid, swept, won, lost, quit>>

\* C13: a turn on "q" sets quit; on "<row> <col>" with valid coordinates it
\* sweeps the cell; on "f<row> <col>" with valid coordinates it toggles the
\* flag; on every other line, an "f" elsewhere than as the one leading
\* character included, grid, swept, flagged, won, lost and quit stay as they
\* were.
C13_CliTurnEffects ==
  [][\A user_string \in UserStrings :
       cli_take_action(user_string)
       => IF user_string = <<"q">>
          THEN quit' /\ UNCHANGED <<grid, swept, flagged, won, lost>>
          ELSE IF parse_coords(user_string) # None
          THEN CliSweeps(parse_coords(user_string))
          ELSE IF /\ user_string # << >>
                  /\ Head(user_string) = "f"
                  /\ parse_coords(Tail(user_string)) # None
          THEN CliFlags(parse_coords(Tail(user_string)))
          ELSE CliUnchanged]_vars

\* C14: won, once true, stays true and lost, once true, stays true, whatever
\* method is called next; and a step that changes won or lost is a sweep_tile.
C14_WonLostTerminal ==
  [][/\ won => won'
     /\ lost => lost'
     /\ (won' # won \/ lost' # lost)
        => \E location \in SweepLocations : sweep_tile(location[1], location[2])]_vars

C14_Witness ==
  /\ won /\ lost /\ quit
  /\ \E c \in Cells : flagged[c] = 1
  /\ \E c \in Cells : grid[c] = exploded

\* C15: flag_tile on a location of the board flips the flag of that cell and
\* of no other, and leaves grid, swept, won, lost and quit as they were; a
\* second flag_tile on the location would restore the flags.  A sweep reads
\* grid, won and lost only (swept_grid, check_game_state), so with these left
\* as they were a toggle between two sweeps cannot change what the sweeps give.
C15_FlagTileFlipsOneCell ==
  [][\A location \in FlagCells :
       flag_tile(location[1], location[2])
       => /\ flagged'[location] = 1 - flagged[location]
          /\ \A c \in Cells \ {location} : flagged'[c] = flagged[c]
          /\ UNCHANGED <<grid, swept, won, lost, quit>>
          /\ toggled(flagged', location[1], location[2]) = flagged]_vars

C15_Witness ==
  /\ raised = "none"
  /\ flagged[<<0, 0>>] = 0
  /\ flagged[<<rows - 1, cols - 1>>] = 1
  /\ swept[<<rows - 1, cols - 1>>] = 1
  /\ \E c \in Cells : grid[c] = mine

\* C16: the constructor with sampled mines: the RandomMines flat indices are
\* distinct, index -> (index div cols, index mod cols) sends them to as many
\* distinct cells of the board, exactly these cells hold Mine, number_of_mines
\* is RandomMines, every other cell is Unexplored, and flagged, swept, won,
\* lost and quit are all false.
C16_RandomMinesLaid ==
  [][(~constructed /\ mine_locations_flat # << >>)
     => LET k == Len(mine_locations_flat)
            sampled == { <<mine_locations_flat[i] \div cols,
                           mine_locations_flat[i] % cols>> : i \in 1 .. k }
        IN /\ constructed' /\ raised' = "none"
           /\ k = RandomMines
           /\ \A i, j \in 1 .. k :
                i # j => mine_locations_flat[i] # mine_locations_flat[j]
           /\ sampled \subseteq Cells
           /\ Cardinality(sampled) = k
           /\ {c \in Cells : grid'[c] = mine} = sampled
           /\ number_of_mines' = k
           /\ \A c \in Cells \ sampled : grid'[c] = unexplored
           /\ \A c \in Cells : flagged'[c] = 0 /\ swept'[c] = 0
           /\ ~won' /\ ~lost' /\ ~quit']_vars

C16_Witness ==
  /\ constructed
  /\ mine_locations_flat # << >>
  /\ mine_locations_flat[1] = rows * cols - 1
  /\ grid[<<rows - 1, cols - 1>>] = mine
  /\ Cardinality({c \in Cells : grid[c] = mine}) = RandomMines
  /\ number_of_mines = RandomMines
  /\ \A c \in Cells : swept[c] = 0

\* C17: clear_swept_flags clears the flag of every swept cell, keeps the flag
\* of every unswept cell, leaves grid, swept, won, lost and quit as they were,
\* and a second application changes nothing more.
C17_ClearSweptFlags ==
  [][clear_swept_flags
     => /\ \A c \in Cells :
             flagged'[c] = IF swept[c] = 1 THEN 0 ELSE flagged[c]
        /\ UNCHANGED <<grid, swept, won, lost, quit>>
        /\ cleared(flagged', swept') = flagged']_vars

C17_Witness ==
  /\ raised = "none"
  /\ flagged[<<0, 0>>] = 1 /\ swept[<<0, 0>>] = 0
  /\ flagged[<<rows - 1, cols - 1>>] = 0 /\ swept[<<rows - 1, cols - 1>>] = 1
  /\ \E c \in Cells : grid[c] = exploded

\* C18: exit_game sets quit and leaves grid, swept, flagged, won and lost as
\* they were, whatever the state of the game; no method sets quit back to
\* false; and a step that sets quit is exit_game, never a sweep or a flag.
C18_ExitGameSetsQuit ==
  [][/\ exit_game => (quit' /\ UNCHANGED <<grid, swept, flagged, won, lost>>)
     /\ quit => quit'
     /\ quit' # quit => exit_game]_vars

C18_Witness ==
  /\ quit /\ lost /\ ~won
  /\ \E c \in Cells : grid[c] = unexplored
  /\ \E c \in Cells : flagged[c] = 1

\* C19: in run_cli_game a round goes on while won, lost and quit are all
\* false and ends with the turn that makes one of them true; the player is
\* then asked; an answer that is neither a yes nor a no token leads to the
\* question being asked again and changes nothing else; the session ends only
\* on a no token; and on a yes token a new round starts on a new engine whose
\* won, lost, quit, flagged and swept are all false.
C19_SessionLoop ==
  [][/\ pc = "turn"
        => /\ ~(won \/ lost \/ quit)
           /\ pc' = IF won' \/ lost' \/ quit' THEN "prompt" ELSE "turn"
     /\ pc \in {"prompt", "reprompt"}
        => /\ won \/ lost \/ quit
           /\ UNCHANGED <<grid, swept, flagged, won, lost, quit, number_of_mines>>
           /\ \A continue_string \in Answers :
                (run_cli_game_prompt(continue_string)
                 \/ run_cli_game_reprompt(continue_string))
                => pc' = IF continue_string \in {"Yes", "yes", "Y", "y"} THEN "start"
                         ELSE IF continue_string \in {"No", "no", "N", "n"} THEN "exited"
                         ELSE "reprompt"
     /\ pc' = "exited" => pc \in {"prompt", "reprompt"}
     /\ pc = "start"
        => /\ pc' = "turn"
           /\ ~won' /\ ~lost' /\ ~quit'
           /\ \A c \in Cells : flagged'[c] = 0 /\ swept'[c] = 0]_vars

C19_Witness ==
  /\ pc = "reprompt"
  /\ won
  /\ \E c \in Cells : grid[c] = mine /\ flagged[c] = 1

\* swept is 1 on the cells that hold a count or Exploded and 0 on the cells
\* that hold Unexplored or Mine
SweptAgreesWithGrid ==
  \A c \in Cells :
    /\ swept[c] \in {0, 1}
    /\ swept[c] = 1 <=> grid[c] \in (0 .. max_number_of_adj_mines) \cup {exploded}
    /\ swept[c] = 0 <=> grid[c] \in {unexplored, mine}

\* C20: in every state reached by method calls with locations of the board,
\* swept and grid agree: a cell is swept iff it holds a count 0..8 or
\* Exploded, and not swept iff it holds Unexplored or Mine; a swept cell
\* stays swept and never again holds Unexplored or Mine.
C20_SweptMatchesGrid ==
  [][/\ SweptAgreesWithGrid
     /\ SweptAgreesWithGrid'
     /\ \A c \in Cells :
          swept[c] = 1 => /\ swept'[c] = 1
                          /\ grid'[c] \notin {unexplored, mine}]_vars

C20_Witness ==
  /\ \E c \in Cells : swept[c] = 1 /\ grid[c] \in 1 .. max_number_of_adj_mines
  /\ \E c \in Cells : swept[c] = 1 /\ grid[c] = exploded
  /\ \E c \in Cells : swept[c] = 0 /\ grid[c] = mine
  /\ \E c \in Cells : swept[c] = 0 /\ grid[c] = unexplored
  /\ \E c \in Cells : flagged[c] = 1

\* C21: in a session of run_cli_game no turn changes grid, swept or flagged of
\* an engine whose won, lost or quit is true (the step that builds the next
\* engine apart); and in every state of a session won and lost are not both
\* true and at most one cell holds Exploded.
C21_NoTurnAfterRoundEnd ==
  [][/\ (pc # "start" /\ <<grid, swept, flagged>>' # <<grid, swept, flagged>>)
        => ~(won \/ lost \/ quit)
     /\ ~(won' /\ lost')
     /\ Cardinality({c \in Cells : grid'[c] = exploded}) <= 1]_vars

C21_Witness ==
  /\ pc = "prompt"
  /\ lost /\ ~won /\ ~quit
  /\ Cardinality({c \in Cells : grid[c] = exploded}) = 1
  /\ \E c \in Cells : grid[c] = mine
  /\ \E c \in Cells : swept[c] = 1 /\ grid[c] \in 0 .. max_number_of_adj_mines

\* the cells of grid g that hold neither a count nor Exploded
Hidden(g) == {c \in Cells : g[c] \in {mine, unexplored}}

\* the grids that agree with g on every revealed cell and hold Mine or
\* Unexplored, in any arrangement, on the others
SameRevealed(g) ==
  { [c \in Cells |-> IF c \in Hidden(g)
                     THEN IF c \in mines THEN mine ELSE unexplored
                     ELSE g[c]] : mines \in SUBSET Hidden(g) }

\* C22: player_view does not tell where the unswept mines are: the view it
\* returns is the view of every engine state with the same flags and the same
\* revealed cells, whichever of the other cells hold Mine and not Unexplored.
C22_ViewHidesMines ==
  [][player_view
     => \A g \in SameRevealed(grid) : view_of(g, flagged) = returned']_vars

C22_Witness ==
  /\ returned # NoView
  /\ \E c, d \in Cells :
       /\ grid[c] = mine /\ grid[d] = unexplored
       /\ flagged[c] = 0 /\ flagged[d] = 0
       /\ returned[c] = returned[d]
  /\ \E c \in Cells : swept[c] = 1 /\ returned[c] = Float(grid[c])

====
